---------------------------- MODULE Spec2Model ----------------------------
(***************************************************************************)
(* A model of mlist.py, a curses text viewer with a directory browser.     *)
(*                                                                         *)
(* Python strings are sequences of one-character strings; a line buffer is *)
(* a sequence of such strings.  Python indices are 0-based: lines[i] of    *)
(* the code is ls[i + 1] here.                                             *)
(***************************************************************************)
EXTENDS Integers, Sequences, FiniteSets, TLC

VARIABLES
    lines,          \* ViewerState.lines
    cur,            \* ViewerState.cur
    top,            \* ViewerState.top
    hscroll,        \* ViewerState.hscroll
    show_linenums,  \* ViewerState.show_linenums
    search_q,       \* ViewerState.search_q: None or Some(string)
    rows,           \* the height stdscr reports (the terminal's)
    maxy,           \* the local maxy of the running loop
    ch,             \* the key event the running loop read last
    pc,             \* where control is
    call,           \* the search call made last, when the search functions run alone
    fs,             \* the filesystem: the nodes present, the directories unreadable
    path,           \* browse_dir: path
    entries,        \* browse_dir: entries
    idx,            \* browse_dir: idx
    list_failed,    \* browse_dir: the except branch of the listing was taken last
    sel,            \* main: sel, what browse_dir returned (None before it returns)
    arg,            \* main: args.path
    stdin,          \* the text on standard input
    term,           \* the terminal: "normal", or "curses" inside curses.wrapper
    sessions,       \* the curses.wrapper sessions entered so far, in order
    raised,         \* the exception that ended the process, "none" without one
    status          \* the exit status of the process, None while it runs

viewerVars == <<lines, cur, top, hscroll, show_linenums, search_q>>

browserVars == <<fs, path, entries, idx, list_failed, sel>>

mainVars == <<arg, stdin, term, sessions, raised, status>>

vars == <<lines, cur, top, hscroll, show_linenums, search_q, rows, maxy, ch, pc, call,
          fs, path, entries, idx, list_failed, sel,
          arg, stdin, term, sessions, raised, status>>

----------------------------------------------------------------------------
\* Bounds of the model.

\* lines of a viewer buffer
MaxLines == 3
\* terminal heights explored: 1..MaxRows
MaxRows == 3
\* horizontal offsets explored: within this distance of 0 and of the cap
HScrollExplore == 2

----------------------------------------------------------------------------
\* Values.

\* Optional values: None, or Some(x)
None == <<>>

Some(x) == <<x>>

NOT_FOUND == -1

HSCROLL_MAX == 1000

\* str.lower() on one character
LowerChar(c) == CASE c = "A" -> "a" [] c = "B" -> "b" [] OTHER -> c

\* str.lower()
Lower(s) == [i \in 1..Len(s) |-> LowerChar(s[i])]

\* Python's `needle in hay` on strings
Contains(hay, needle) ==
    \E k \in 0..(Len(hay) - Len(needle)) :
        SubSeq(hay, k + 1, k + Len(needle)) = needle

Max(a, b) == IF a >= b THEN a ELSE b

Min(a, b) == IF a <= b THEN a ELSE b

clamp(n, lo, hi) == Max(lo, Min(hi, n))

----------------------------------------------------------------------------
\* Search.

RECURSIVE ForwardScan(_, _, _)
\* the for loop of search_forward, from index i
ForwardScan(ls, query, i) ==
    IF i >= Len(ls) THEN NOT_FOUND
    ELSE IF Contains(Lower(ls[i + 1]), Lower(query)) THEN i
    ELSE ForwardScan(ls, query, i + 1)

\* search_forward scanning from the line after start_line
search_forward_exclusive(ls, c, query, start_line) ==
    LET start == IF start_line = None THEN c + 1 ELSE start_line[1]
    IN  ForwardScan(ls, query, start + 1)

search_forward(ls, c, query, start_line) ==
    LET start == IF start_line = None THEN c + 1 ELSE start_line[1]
    IN  ForwardScan(ls, query, start)

RECURSIVE BackwardScan(_, _, _)
\* the for loop of search_backward, from index i down to 0
BackwardScan(ls, query, i) ==
    IF i < 0 THEN NOT_FOUND
    ELSE IF Contains(Lower(ls[i + 1]), Lower(query)) THEN i
    ELSE BackwardScan(ls, query, i - 1)

RECURSIVE BackwardScanAboveZero(_, _, _)
BackwardScanAboveZero(ls, query, i) ==
    IF i <= 0 THEN NOT_FOUND
    ELSE IF Contains(Lower(ls[i + 1]), Lower(query)) THEN i
    ELSE BackwardScanAboveZero(ls, query, i - 1)

\* search_backward with range(start_line, 0, -1): index 0 is not scanned
search_backward_above_zero(ls, c, query, start_line) ==
    LET start == IF start_line = None THEN c - 1 ELSE start_line[1]
    IN  BackwardScanAboveZero(ls, query, start)

search_backward(ls, c, query, start_line) ==
    LET start == IF start_line = None THEN c - 1 ELSE start_line[1]
    IN  BackwardScan(ls, query, start)

----------------------------------------------------------------------------
\* The filesystem.  A path is the sequence of its names below the root.

Root == <<>>

DirD == <<"d">>

\* the nodes that can exist below the root, and which of them are directories
Nodes == { DirD, <<"d", "a">>, <<"d", "B">>, <<"d", "s">> }

DirNodes == { DirD, <<"d", "s">> }

\* the directories whose read permission changes
ChmodNodes == { DirD }

\* the code points of a name, the key sorted() compares str by
CodePoints(name) ==
    CASE name = "a" -> <<97>>
      [] name = "B" -> <<66>>
      [] name = "d" -> <<100>>
      [] name = "s" -> <<115>>

\* os.path.dirname on an absolute path; the root is its own parent
dirname(p) == IF p = Root THEN Root ELSE SubSeq(p, 1, Len(p) - 1)

\* os.path.join(path, name)
join(p, name) == Append(p, name)

IsPrefix(p, q) == Len(p) <= Len(q) /\ SubSeq(q, 1, Len(p)) = p

Consistent(f) ==
    /\ \A n \in f.present : dirname(n) = Root \/ dirname(n) \in f.present
    /\ f.unreadable \subseteq f.present

FsStates ==
    { f \in [present : SUBSET Nodes, unreadable : SUBSET ChmodNodes] : Consistent(f) }

\* os.path.isdir
isdir(f, p) == p = Root \/ (p \in f.present /\ p \in DirNodes)

\* os.listdir raises: the directory is gone or cannot be read
ListingFails(f, p) == ~isdir(f, p) \/ p \in f.unreadable

\* os.listdir, the names in no order
listdir(f, p) == { n[Len(n)] : n \in { m \in f.present : dirname(m) = p } }

\* str comparison: by code points, a proper prefix first
RECURSIVE SeqLess(_, _)
SeqLess(a, b) ==
    IF b = <<>> THEN FALSE
    ELSE IF a = <<>> THEN TRUE
    ELSE IF Head(a) # Head(b) THEN Head(a) < Head(b)
    ELSE SeqLess(Tail(a), Tail(b))

\* str comparison after str.lower(): "B" is compared as "b"
NameLessFolded(x, y) ==
    SeqLess(IF x = "B" THEN <<98>> ELSE CodePoints(x),
            IF y = "B" THEN <<98>> ELSE CodePoints(y))

NameLess(x, y) == SeqLess(CodePoints(x), CodePoints(y))

RECURSIVE sorted(_)
\* sorted() of a collection of distinct names
sorted(S) ==
    IF S = {} THEN <<>>
    ELSE LET m == CHOOSE x \in S : \A y \in S \ {x} : NameLess(x, y)
         IN  <<m>> \o sorted(S \ {m})

PARENT == ".."

\* another process creates a node, removes one with all below it, or changes
\* the read permission of a directory
FsCreate(n) ==
    /\ n \notin fs.present
    /\ isdir(fs, dirname(n))
    /\ fs' = [fs EXCEPT !.present = @ \cup {n}]

FsRemove(n) ==
    /\ n \in fs.present
    /\ fs' = [present |-> { m \in fs.present : ~IsPrefix(n, m) },
              unreadable |-> { m \in fs.unreadable : ~IsPrefix(n, m) }]

FsChmod(n) ==
    /\ n \in fs.present
    /\ fs' = [fs EXCEPT !.unreadable = IF n \in @ THEN @ \ {n} ELSE @ \cup {n}]

\* main's variables while a loop or a function is run on its own
MainIdle ==
    /\ arg = [form |-> "none", path |-> Root]
    /\ stdin = <<>>
    /\ term = "curses"
    /\ sessions = <<>>
    /\ raised = "none"
    /\ status = None

\* the browser's variables while no browser runs
BrowserIdle ==
    /\ fs = [present |-> {}, unreadable |-> {}]
    /\ path = Root
    /\ entries = <<>>
    /\ idx = 0
    /\ list_failed = FALSE
    /\ sel = None

----------------------------------------------------------------------------
\* Inputs.

\* the contents of a line
LineAB == <<"a", "b">>

LineBa == <<"B", "a">>

LineEmpty == <<>>

\* what read_text can return: never an empty list
ViewerBuffers ==
    { b \in { <<LineEmpty>>,
              <<LineAB, LineBa>>,
              <<LineAB, LineBa, LineEmpty>>,
              <<LineBa, LineAB, LineBa>>,
              <<LineBa, LineEmpty, LineAB, LineBa>>,
              <<LineAB, LineEmpty, LineEmpty, LineBa, LineAB>> } :
        Len(b) <= MaxLines }

\* what the user can enter at a search prompt; the empty string included
Queries == { <<>>, <<"a">>, <<"b", "A">>, <<"a", "B">>, <<"B", "b">> }

Heights == 1..MaxRows

Event(key, text) == [key |-> key, text |-> text]

NoCall == [fn |-> "none"]

total == Len(lines)

----------------------------------------------------------------------------
\* The viewer: run().

\* ViewerState.__init__ and the entry of run()
ViewerInit ==
    /\ lines \in ViewerBuffers
    /\ cur = 0
    /\ top = 0
    /\ show_linenums = FALSE
    /\ search_q = None
    /\ rows \in Heights
    /\ maxy = 0
    /\ pc = "frame"
    /\ call = NoCall
    /\ BrowserIdle
    /\ MainIdle
    /\ \/ hscroll = 0 /\ ch = Event("none", <<>>)
       \/ hscroll = HSCROLL_MAX - HScrollExplore /\ ch = Event("right", <<>>)

\* the offsets the model explores
HExplored(h) == h <= HScrollExplore \/ h >= HSCROLL_MAX - HScrollExplore

\* the viewport rule scrolling down as if all maxy rows showed lines
ViewportTopFullHeight(c, t, my) ==
    IF c < t THEN c
    ELSE IF c >= t + my - 1 THEN c - my + 1
    ELSE t

\* "Ensure current line is visible"
ViewportTop(c, t, my) ==
    IF c < t THEN c
    ELSE IF c >= t + my - 1 THEN c - my + 2
    ELSE t

\* the text of a drawn row: the line number when shown, the line from hscroll on
RowText(ls, line_idx, h, nums) ==
    [number |-> IF nums THEN Some(line_idx + 1) ELSE None,
     text |-> IF h < Len(ls[line_idx + 1])
              THEN SubSeq(ls[line_idx + 1], h + 1, Len(ls[line_idx + 1]))
              ELSE <<>>]

\* the for loop of draw from row y, highlighting the row whose number is cur
RECURSIVE DrawRowsByRow(_, _, _, _, _, _, _)
DrawRowsByRow(ls, t, c, h, nums, my, y) ==
    IF y >= my - 1 \/ t + y >= Len(ls) THEN <<>>
    ELSE << [line_idx |-> t + y,
             shown |-> RowText(ls, t + y, h, nums),
             reverse |-> (y = c)] >>
         \o DrawRowsByRow(ls, t, c, h, nums, my, y + 1)

draw_by_row(ls, t, c, h, nums, my) == DrawRowsByRow(ls, t, c, h, nums, my, 0)

\* the for loop of draw from row y: one row per line, until the last line
RECURSIVE DrawRows(_, _, _, _, _, _, _)
DrawRows(ls, t, c, h, nums, my, y) ==
    IF y >= my - 1 \/ t + y >= Len(ls) THEN <<>>
    ELSE << [line_idx |-> t + y,
             shown |-> RowText(ls, t + y, h, nums),
             reverse |-> (t + y = c)] >>
         \o DrawRows(ls, t, c, h, nums, my, y + 1)

\* draw(): the rows above the status line
draw(ls, t, c, h, nums, my) == DrawRows(ls, t, c, h, nums, my, 0)

\* the head of an iteration: getmaxyx, the viewport rule, draw
Frame ==
    /\ pc = "frame"
    /\ maxy' = rows
    /\ top' = ViewportTop(cur, top, rows)
    /\ pc' = "getch"
    /\ UNCHANGED <<lines, cur, hscroll, show_linenums, search_q, rows, ch, call>>
    /\ UNCHANGED <<browserVars, mainVars>>

\* a key handler that assigns nothing but what it names
Handled(key, text) ==
    /\ pc = "getch"
    /\ ch' = Event(key, text)
    /\ pc' = "frame"
    /\ UNCHANGED <<lines, top, maxy, call>>
    /\ UNCHANGED <<browserVars, mainVars>>

KeyQuit ==
    /\ pc = "getch"
    /\ ch' = Event("q", <<>>)
    /\ pc' = "exit"
    /\ UNCHANGED <<lines, cur, top, hscroll, show_linenums, search_q, rows, maxy, call>>
    /\ UNCHANGED <<browserVars, mainVars>>

KeyUp ==
    /\ Handled("up", <<>>)
    /\ cur' = clamp(cur - 1, 0, total - 1)
    /\ UNCHANGED <<hscroll, show_linenums, search_q, rows>>

KeyDown ==
    /\ Handled("down", <<>>)
    /\ cur' = clamp(cur + 1, 0, total - 1)
    /\ UNCHANGED <<hscroll, show_linenums, search_q, rows>>

KeyLeft ==
    /\ Handled("left", <<>>)
    /\ hscroll' = clamp(hscroll - 1, 0, HSCROLL_MAX)
    /\ HExplored(hscroll - 1)
    /\ UNCHANGED <<cur, show_linenums, search_q, rows>>

\* right without the clamp
KeyRightUnclamped ==
    /\ Handled("right", <<>>)
    /\ hscroll' = hscroll + 1
    /\ HExplored(hscroll + 1)
    /\ UNCHANGED <<cur, show_linenums, search_q, rows>>

KeyRight ==
    /\ Handled("right", <<>>)
    /\ hscroll' = clamp(hscroll + 1, 0, HSCROLL_MAX)
    /\ HExplored(hscroll + 1)
    /\ UNCHANGED <<cur, show_linenums, search_q, rows>>

KeyPageUp ==
    /\ Handled("pgup", <<>>)
    /\ cur' = clamp(cur - (maxy - 2), 0, total - 1)
    /\ UNCHANGED <<hscroll, show_linenums, search_q, rows>>

\* page down by the whole viewport height
KeyPageDownFullPage ==
    /\ Handled("pgdn", <<>>)
    /\ cur' = clamp(cur + (maxy - 1), 0, total - 1)
    /\ UNCHANGED <<hscroll, show_linenums, search_q, rows>>

KeyPageDown ==
    /\ Handled("pgdn", <<>>)
    /\ cur' = clamp(cur + (maxy - 2), 0, total - 1)
    /\ UNCHANGED <<hscroll, show_linenums, search_q, rows>>

KeyHome ==
    /\ Handled("home", <<>>)
    /\ cur' = 0
    /\ UNCHANGED <<hscroll, show_linenums, search_q, rows>>

KeyEnd ==
    /\ Handled("end", <<>>)
    /\ cur' = total - 1
    /\ UNCHANGED <<hscroll, show_linenums, search_q, rows>>

\* 'n' that also resets the horizontal offset
KeyLineNumsResetScroll ==
    /\ Handled("n", <<>>)
    /\ show_linenums' = ~show_linenums
    /\ hscroll' = 0
    /\ UNCHANGED <<cur, search_q, rows>>

KeyLineNums ==
    /\ Handled("n", <<>>)
    /\ show_linenums' = ~show_linenums
    /\ UNCHANGED <<cur, hscroll, search_q, rows>>

\* '/' storing the query before testing it for emptiness
KeySearchStoresEmpty(query) ==
    /\ Handled("/", query)
    /\ search_q' = Some(query)
    /\ IF query # <<>>
       THEN LET result == search_forward(lines, cur, query, Some(cur))
            IN  cur' = IF result # NOT_FOUND THEN result ELSE cur
       ELSE UNCHANGED cur
    /\ UNCHANGED <<hscroll, show_linenums, rows>>

\* '/' searching from the line after cur
KeySearchExclusive(query) ==
    /\ Handled("/", query)
    /\ IF query # <<>>
       THEN /\ search_q' = Some(query)
            /\ LET result == search_forward(lines, cur, query, Some(cur + 1))
               IN  cur' = IF result # NOT_FOUND THEN result ELSE cur
       ELSE UNCHANGED <<search_q, cur>>
    /\ UNCHANGED <<hscroll, show_linenums, rows>>

\* '/': the prompt returns query
KeySearch(query) ==
    /\ Handled("/", query)
    /\ IF query # <<>>
       THEN /\ search_q' = Some(query)
            /\ LET result == search_forward(lines, cur, query, Some(cur))
               IN  cur' = IF result # NOT_FOUND THEN result ELSE cur
       ELSE UNCHANGED <<search_q, cur>>
    /\ UNCHANGED <<hscroll, show_linenums, rows>>

\* '?' searching from the line before cur
KeySearchBackwardExclusive(query) ==
    /\ Handled("?", query)
    /\ IF query # <<>>
       THEN /\ search_q' = Some(query)
            /\ LET result == search_backward(lines, cur, query, Some(cur - 1))
               IN  cur' = IF result # NOT_FOUND THEN result ELSE cur
       ELSE UNCHANGED <<search_q, cur>>
    /\ UNCHANGED <<hscroll, show_linenums, rows>>

\* '?': the prompt returns query
KeySearchBackward(query) ==
    /\ Handled("?", query)
    /\ IF query # <<>>
       THEN /\ search_q' = Some(query)
            /\ LET result == search_backward(lines, cur, query, Some(cur))
               IN  cur' = IF result # NOT_FOUND THEN result ELSE cur
       ELSE UNCHANGED <<search_q, cur>>
    /\ UNCHANGED <<hscroll, show_linenums, rows>>

\* Python's truth value of search_q
Truthy(q) == q # None /\ q[1] # <<>>

\* 'F' searching from cur itself
KeyFindNextInclusive ==
    /\ Handled("F", <<>>)
    /\ IF Truthy(search_q)
       THEN LET result == search_forward(lines, cur, search_q[1], Some(cur))
            IN  cur' = IF result # NOT_FOUND THEN result ELSE cur
       ELSE UNCHANGED cur
    /\ UNCHANGED <<hscroll, show_linenums, search_q, rows>>

\* 'F'; without a query the key falls through every branch
KeyFindNext ==
    /\ Handled("F", <<>>)
    /\ IF Truthy(search_q)
       THEN LET result == search_forward(lines, cur, search_q[1], Some(cur + 1))
            IN  cur' = IF result # NOT_FOUND THEN result ELSE cur
       ELSE UNCHANGED cur
    /\ UNCHANGED <<hscroll, show_linenums, search_q, rows>>

\* KEY_RESIZE: getch reports a resize, after which stdscr has the new height
KeyResize(h) ==
    /\ Handled("resize", <<>>)
    /\ h # rows
    /\ rows' = h
    /\ UNCHANGED <<cur, hscroll, show_linenums, search_q>>

\* a key no branch matches
KeyOther ==
    /\ Handled("other", <<>>)
    /\ UNCHANGED <<cur, hscroll, show_linenums, search_q, rows>>

ViewerKey ==
    \/ KeyQuit
    \/ KeyUp
    \/ KeyDown
    \/ KeyLeft
    \/ KeyRight
    \/ KeyPageUp
    \/ KeyPageDown
    \/ KeyHome
    \/ KeyEnd
    \/ KeyLineNums
    \/ \E query \in Queries : KeySearch(query)
    \/ \E query \in Queries : KeySearchBackward(query)
    \/ KeyFindNext
    \/ \E h \in Heights : KeyResize(h)
    \/ KeyOther

Next == Frame \/ ViewerKey

Spec == ViewerInit /\ [][Next]_vars

----------------------------------------------------------------------------
\* The directory browser: browse_dir().

\* the viewer's variables while no viewer runs
ViewerIdle ==
    /\ lines = <<>>
    /\ cur = 0
    /\ top = 0
    /\ hscroll = 0
    /\ show_linenums = FALSE
    /\ search_q = None
    /\ call = NoCall

\* main() has found args.path to be a directory and calls browse_dir
BrowserInit ==
    /\ ViewerIdle
    /\ fs \in FsStates
    /\ path \in { p \in DirNodes \cup {Root} : isdir(fs, p) }
    /\ entries = <<>>
    /\ idx = 0
    /\ list_failed = FALSE
    /\ sel = None
    /\ rows \in Heights
    /\ maxy = 0
    /\ ch = Event("none", <<>>)
    /\ pc = "b_render"
    /\ MainIdle

Browsing == pc \in {"b_render", "b_getch"}

\* Python's seq[:n] for n >= 0
SliceTo(seq, n) == [i \in 1..Min(n, Len(seq)) |-> seq[i]]

\* the rows the render loop draws: the name with its mark, and the highlight
BrowserDrawn(f, p, es, my, i) ==
    LET shown == SliceTo(es, my - 1)
    IN  [r \in 1..Len(shown) |->
            [name |-> shown[r],
             mark |-> IF shown[r] = PARENT THEN isdir(f, p) ELSE isdir(f, join(p, shown[r])),
             reverse |-> (r - 1 = i)]]

\* the head of an iteration: getmaxyx, the listing, the drawing
BrowserRender ==
    /\ pc = "b_render"
    /\ maxy' = rows
    /\ IF ListingFails(fs, path)
       THEN entries' = <<PARENT>> /\ list_failed' = TRUE
       ELSE entries' = <<PARENT>> \o sorted(listdir(fs, path)) /\ list_failed' = FALSE
    /\ pc' = "b_getch"
    /\ UNCHANGED <<fs, path, idx, sel, rows, ch>>
    /\ UNCHANGED <<viewerVars, call, mainVars>>

\* a key the browser reads, apart from what its branch assigns
BrowserHandled(key) ==
    /\ pc = "b_getch"
    /\ ch' = Event(key, <<>>)
    /\ UNCHANGED <<fs, entries, list_failed, maxy>>
    /\ UNCHANGED <<viewerVars, call, mainVars>>

BrowserKeyQuit ==
    /\ BrowserHandled("q")
    /\ pc' = "b_exit"
    /\ UNCHANGED <<path, idx, sel, rows>>

BrowserKeyUp ==
    /\ BrowserHandled("up")
    /\ idx' = clamp(idx - 1, 0, Len(entries) - 1)
    /\ pc' = "b_render"
    /\ UNCHANGED <<path, sel, rows>>

\* down without the clamp
BrowserKeyDownUnclamped ==
    /\ BrowserHandled("down")
    /\ idx' = idx + 1
    /\ pc' = "b_render"
    /\ UNCHANGED <<path, sel, rows>>

BrowserKeyDown ==
    /\ BrowserHandled("down")
    /\ idx' = clamp(idx + 1, 0, Len(entries) - 1)
    /\ pc' = "b_render"
    /\ UNCHANGED <<path, sel, rows>>

\* enter: entries[idx] raises IndexError when idx is past the list
BrowserKeyEnter ==
    /\ BrowserHandled("enter")
    /\ IF idx >= Len(entries)
       THEN pc' = "b_error" /\ UNCHANGED <<path, idx, sel>>
       ELSE LET s == entries[idx + 1]
                full == join(path, s)
            IN  IF s = PARENT
                THEN path' = dirname(path) /\ idx' = 0 /\ pc' = "b_render" /\ UNCHANGED sel
                ELSE IF isdir(fs, full)
                THEN path' = full /\ idx' = 0 /\ pc' = "b_render" /\ UNCHANGED sel
                ELSE sel' = Some(full) /\ pc' = "b_return" /\ UNCHANGED <<path, idx>>
    /\ UNCHANGED rows

\* backspace that keeps the selection
BrowserKeyBackspaceKeepsIdx ==
    /\ BrowserHandled("backspace")
    /\ path' = dirname(path)
    /\ pc' = "b_render"
    /\ UNCHANGED <<idx, sel, rows>>

BrowserKeyBackspace ==
    /\ BrowserHandled("backspace")
    /\ path' = dirname(path)
    /\ idx' = 0
    /\ pc' = "b_render"
    /\ UNCHANGED <<sel, rows>>

\* KEY_RESIZE: getch reports a resize, after which stdscr has the new height
BrowserKeyResize(h) ==
    /\ BrowserHandled("resize")
    /\ h # rows
    /\ rows' = h
    /\ pc' = "b_render"
    /\ UNCHANGED <<path, idx, sel>>

\* a key no branch matches
BrowserKeyOther ==
    /\ BrowserHandled("other")
    /\ pc' = "b_render"
    /\ UNCHANGED <<path, idx, sel, rows>>

\* the filesystem changes under the browser
FsChange ==
    /\ Browsing
    /\ \/ \E n \in Nodes : FsCreate(n)
       \/ \E n \in Nodes : FsRemove(n)
       \/ \E n \in ChmodNodes : FsChmod(n)
    /\ UNCHANGED <<path, entries, idx, list_failed, sel, rows, maxy, ch, pc>>
    /\ UNCHANGED <<viewerVars, call, mainVars>>

NextBrowser ==
    \/ BrowserRender
    \/ BrowserKeyQuit
    \/ BrowserKeyUp
    \/ BrowserKeyDown
    \/ BrowserKeyEnter
    \/ BrowserKeyBackspace
    \/ \E h \in Heights : BrowserKeyResize(h)
    \/ BrowserKeyOther
    \/ FsChange

SpecBrowser == BrowserInit /\ [][NextBrowser]_vars

----------------------------------------------------------------------------
\* The loader: read_text().

\* a byte that is not valid UTF-8, and the character decoding puts in its place
BAD_BYTE == "0xFF"

REPLACEMENT == "U+FFFD"

\* bytes.decode("utf-8", errors="replace")
decode(raw) == [i \in 1..Len(raw) |-> IF raw[i] = BAD_BYTE THEN REPLACEMENT ELSE raw[i]]

\* the line boundaries of str.splitlines among the characters of the model
IsLineBreak(c) == c \in {"\n", "\r"}

\* the first index >= i of s holding a line boundary, Len(s) + 1 without one
RECURSIVE EndOfLine(_, _)
EndOfLine(s, i) ==
    IF i > Len(s) \/ IsLineBreak(s[i]) THEN i ELSE EndOfLine(s, i + 1)

\* str.splitlines from index i: "\r\n" is one boundary, no line follows a final one
RECURSIVE SplitFrom(_, _)
SplitFrom(s, i) ==
    IF i > Len(s) THEN <<>>
    ELSE LET eol == EndOfLine(s, i)
             next == IF eol > Len(s) THEN eol
                     ELSE IF s[eol] = "\r" /\ eol + 1 <= Len(s) /\ s[eol + 1] = "\n"
                          THEN eol + 2
                     ELSE eol + 1
         IN  <<SubSeq(s, i, eol - 1)>> \o SplitFrom(s, next)

splitlines(s) == SplitFrom(s, 1)

\* read_text after the data is read, without the fallback to one empty line
LinesOfNoFallback(data) == splitlines(data)

\* read_text after the data is read: the lines, or one empty line
LinesOf(data) ==
    LET ls == splitlines(data)
    IN  IF ls = <<>> THEN <<LineEmpty>> ELSE ls

\* the bytes of the files
FileBytes(p) ==
    IF p = <<"d", "a">> THEN <<"a", "b", "\r", "\n", BAD_BYTE, "\n", "B", "a">>
    ELSE <<>>

\* open(path, "rb") raises: no such file, or a directory
OpenFails(f, p) == p = Root \/ p \notin f.present \/ p \in DirNodes

\* the texts standard input can hold
StdinTexts ==
    { <<>>, <<"\n">>, <<"\r", "\n">>, <<"a", "\n", "\n">>,
      <<"a", "\n", "b", "\n", "B">>, <<"a", "b", "\r", "B", "a", "\n">> }

----------------------------------------------------------------------------
\* main().

NoFs == [present |-> {}, unreadable |-> {}]

\* the process starts: the three forms of the argument
MainInit ==
    /\ ViewerIdle
    /\ \/ /\ arg = [form |-> "stdin", path |-> Root]
          /\ stdin \in StdinTexts
          /\ fs = NoFs
       \/ /\ arg \in [form : {"path"}, path : Nodes \cup {Root}]
          /\ stdin = <<>>
          /\ fs \in FsStates
    /\ path = Root
    /\ entries = <<>>
    /\ idx = 0
    /\ list_failed = FALSE
    /\ sel = None
    /\ rows \in Heights
    /\ maxy = 0
    /\ ch = Event("none", <<>>)
    /\ term = "normal"
    /\ sessions = <<>>
    /\ raised = "none"
    /\ status = None
    /\ pc = "m_start"

\* os.path.isdir(args.path); a directory starts the browser inside curses.wrapper
MainStart ==
    /\ pc = "m_start"
    /\ IF arg.form = "path" /\ isdir(fs, arg.path)
       THEN /\ term' = "curses"
            /\ sessions' = Append(sessions, "browser")
            /\ path' = arg.path
            /\ pc' = "b_render"
       ELSE /\ pc' = "m_load"
            /\ UNCHANGED <<term, sessions, path>>
    /\ UNCHANGED <<viewerVars, call, fs, entries, idx, list_failed, sel, rows, maxy, ch>>
    /\ UNCHANGED <<arg, stdin, raised, status>>

\* without the finally of curses.wrapper
NotRestored == term

\* curses.wrapper's finally: endwin
Restored == "normal"

\* browse_dir has returned a path: the wrapper ends the session, the locals of
\* browse_dir are gone
BrowserReturns ==
    /\ pc = "b_return"
    /\ term' = Restored
    /\ path' = Root
    /\ entries' = <<>>
    /\ idx' = 0
    /\ list_failed' = FALSE
    /\ pc' = "m_load"
    /\ UNCHANGED <<viewerVars, call, fs, sel, rows, maxy, ch>>
    /\ UNCHANGED <<arg, stdin, sessions, raised, status>>

\* sys.exit(0) in browse_dir: SystemExit passes through the wrapper
BrowserExits ==
    /\ pc = "b_exit"
    /\ term' = Restored
    /\ status' = Some(0)
    /\ pc' = "done"
    /\ UNCHANGED <<viewerVars, call, browserVars, rows, maxy, ch>>
    /\ UNCHANGED <<arg, stdin, sessions, raised>>

\* IndexError in browse_dir passes through the wrapper and ends the process
BrowserRaises ==
    /\ pc = "b_error"
    /\ term' = Restored
    /\ raised' = "IndexError"
    /\ status' = Some(1)
    /\ pc' = "done"
    /\ UNCHANGED <<viewerVars, call, browserVars, rows, maxy, ch>>
    /\ UNCHANGED <<arg, stdin, sessions>>

\* the path main passes to read_text
LoadPath == IF sel # None THEN sel[1] ELSE arg.path

\* read_text raises
LoadFails == arg.form = "path" /\ OpenFails(fs, LoadPath)

\* the data read_text reads
LoadData == IF arg.form = "stdin" THEN stdin ELSE decode(FileBytes(LoadPath))

\* read_text inside the viewer's session: the wrapper is entered before the load
MainLoadInsideWrapper ==
    /\ pc = "m_load"
    /\ IF LoadFails
       THEN /\ raised' = "IOError"
            /\ status' = Some(1)
            /\ pc' = "done"
            /\ sessions' = Append(sessions, "viewer")
            /\ UNCHANGED <<viewerVars, fs, term>>
       ELSE /\ lines' = LinesOf(LoadData)
            /\ cur' = 0
            /\ top' = 0
            /\ hscroll' = 0
            /\ show_linenums' = FALSE
            /\ search_q' = None
            /\ fs' = NoFs
            /\ term' = "curses"
            /\ sessions' = Append(sessions, "viewer")
            /\ pc' = "frame"
            /\ UNCHANGED <<raised, status>>
    /\ UNCHANGED <<call, path, entries, idx, list_failed, sel, rows, maxy, ch, arg, stdin>>

\* read_text, then the viewer inside curses.wrapper; from here on the program
\* reads the filesystem no more, and the model lets go of it
MainLoad ==
    /\ pc = "m_load"
    /\ IF LoadFails
       THEN /\ raised' = "IOError"
            /\ status' = Some(1)
            /\ pc' = "done"
            /\ UNCHANGED <<viewerVars, fs, term, sessions>>
       ELSE /\ lines' = LinesOf(LoadData)
            /\ cur' = 0
            /\ top' = 0
            /\ hscroll' = 0
            /\ show_linenums' = FALSE
            /\ search_q' = None
            /\ fs' = NoFs
            /\ term' = "curses"
            /\ sessions' = Append(sessions, "viewer")
            /\ pc' = "frame"
            /\ UNCHANGED <<raised, status>>
    /\ UNCHANGED <<call, path, entries, idx, list_failed, sel, rows, maxy, ch, arg, stdin>>

\* run() has returned: the wrapper ends the session, main ends
ViewerReturns ==
    /\ pc = "exit"
    /\ term' = Restored
    /\ status' = Some(0)
    /\ pc' = "done"
    /\ UNCHANGED <<viewerVars, call, browserVars, rows, maxy, ch>>
    /\ UNCHANGED <<arg, stdin, sessions, raised>>

\* the filesystem changes while main is between its calls
FsChangeMain ==
    /\ pc \in {"m_start", "m_load"}
    /\ arg.form = "path"
    /\ \/ \E n \in Nodes : FsCreate(n)
       \/ \E n \in Nodes : FsRemove(n)
       \/ \E n \in ChmodNodes : FsChmod(n)
    /\ UNCHANGED <<path, entries, idx, list_failed, sel, rows, maxy, ch, pc>>
    /\ UNCHANGED <<viewerVars, call, mainVars>>

NextMain ==
    \/ MainStart
    \/ NextBrowser
    \/ BrowserReturns
    \/ BrowserExits
    \/ BrowserRaises
    \/ MainLoad
    \/ Next
    \/ ViewerReturns
    \/ FsChangeMain

SpecMain == MainInit /\ [][NextMain]_vars

----------------------------------------------------------------------------
\* The search functions on their own: lines and arguments drawn from sets.

SearchLineStrings == { <<>>, <<"a", "b">>, <<"B", "a">>, <<"A">>, <<"b">> }

SearchBuffers == UNION { [1..n -> SearchLineStrings] : n \in 1..MaxLines }

SearchQueries == { <<>>, <<"a">>, <<"b", "A">>, <<"B", "b">>, <<"B">> }

SearchInit ==
    /\ lines \in SearchBuffers
    /\ cur = 0
    /\ top = 0
    /\ hscroll = 0
    /\ show_linenums = FALSE
    /\ search_q = None
    /\ rows = 1
    /\ maxy = 0
    /\ ch = Event("none", <<>>)
    /\ pc = "search"
    /\ call = NoCall
    /\ BrowserIdle
    /\ MainIdle

CallSearchForward(query, start_line) ==
    /\ pc = "search"
    /\ call' = [fn |-> "search_forward", query |-> query, start_line |-> start_line,
                result |-> search_forward(lines, cur, query, start_line)]
    /\ UNCHANGED <<lines, cur, top, hscroll, show_linenums, search_q, rows, maxy, ch, pc>>
    /\ UNCHANGED <<browserVars, mainVars>>

CallSearchBackward(query, start_line) ==
    /\ pc = "search"
    /\ call' = [fn |-> "search_backward", query |-> query, start_line |-> start_line,
                result |-> search_backward(lines, cur, query, start_line)]
    /\ UNCHANGED <<lines, cur, top, hscroll, show_linenums, search_q, rows, maxy, ch, pc>>
    /\ UNCHANGED <<browserVars, mainVars>>

NextSearch ==
    \/ \E query \in SearchQueries :
         \E start_line \in {None} \cup { Some(i) : i \in 0..(total + 1) } :
            CallSearchForward(query, start_line)
    \/ \E query \in SearchQueries :
         \E start_line \in {None} \cup { Some(i) : i \in 0..(total - 1) } :
            CallSearchBackward(query, start_line)

SpecSearch == SearchInit /\ [][NextSearch]_vars

----------------------------------------------------------------------------
\* What the claims speak of.

\* the same letter, whatever the case
SameLetter(c, d) == c = d \/ {c, d} \in { {"a", "A"}, {"b", "B"} }

\* line contains query as a substring, compared case-insensitively
Matches(line, query) ==
    \E k \in 0..(Len(line) - Len(query)) :
        \A j \in 1..Len(query) : SameLetter(line[k + j], query[j])

\* the indices in lo..hi whose line matches query
MatchesIn(ls, query, lo, hi) ==
    { i \in lo..hi : i >= 0 /\ i < Len(ls) /\ Matches(ls[i + 1], query) }

Least(S) == CHOOSE x \in S : \A y \in S : x <= y

Greatest(S) == CHOOSE x \in S : \A y \in S : x >= y

\* the vertical window top .. top + viewport height - 1
ViewportHeight == maxy - 1

\* C1: with a terminal of at least 2 rows, right after the viewport rule of an
\* iteration (control is at getch; draw has changed nothing), the current line
\* lies in the window: top <= cur <= top + viewport height - 1.
C1_CurInViewport ==
    (pc = "getch" /\ maxy >= 2) =>
        (top <= cur /\ cur <= top + ViewportHeight - 1)

\* the rule has scrolled down to reveal the current line after a resize
C1_Witness ==
    /\ pc = "getch"
    /\ maxy >= 2
    /\ top > 0
    /\ cur = top + ViewportHeight - 1
    /\ ch.key = "resize"

\* C2: whatever keys were pressed and whatever the terminal height, the current
\* index is in [0, total - 1] and the horizontal offset is in [0, 1000].
C2_Clamped ==
    /\ cur >= 0
    /\ cur <= total - 1
    /\ hscroll >= 0
    /\ hscroll <= HSCROLL_MAX

\* right was pressed at the cap, on the last line, in a one-row terminal
C2_Witness ==
    /\ pc = "frame"
    /\ ch.key = "right"
    /\ hscroll = HSCROLL_MAX
    /\ total > 1
    /\ cur = total - 1
    /\ maxy = 1

\* C3: search_forward(query, start) returns the least index in [start, total)
\* whose line contains query case-insensitively, and -1 exactly when there is
\* none (start >= total included).
C3_SearchForward ==
    (call.fn = "search_forward" /\ call.start_line # None) =>
        LET M == MatchesIn(lines, call.query, call.start_line[1], total - 1)
        IN  IF M = {} THEN call.result = NOT_FOUND ELSE call.result = Least(M)

\* a match in another case, found past a first line that does not match
C3_Witness ==
    /\ call.fn = "search_forward"
    /\ call.start_line = Some(0)
    /\ call.query = <<"b", "A">>
    /\ lines = << <<"a", "b">>, <<"B", "a">> >>
    /\ call.result = 1

\* C4: search_backward(query, start), 0 <= start < total, returns the greatest
\* index in [0, start] whose line contains query case-insensitively (index 0
\* is scanned), and -1 exactly when there is none.
C4_SearchBackward ==
    (call.fn = "search_backward" /\ call.start_line # None) =>
        LET M == MatchesIn(lines, call.query, 0, call.start_line[1])
        IN  IF M = {} THEN call.result = NOT_FOUND ELSE call.result = Greatest(M)

\* the only match is at index 0
C4_Witness ==
    /\ call.fn = "search_backward"
    /\ call.start_line = Some(1)
    /\ call.query = <<"b", "A">>
    /\ lines = << <<"B", "a">>, <<"a", "b">> >>
    /\ call.result = 0

\* a step in which the viewer loop handles the key `key`
ViewerHandles(key) == pc = "getch" /\ ch'.key = key

\* C5: '/' with a non-empty query stores the query and searches forward from
\* cur inclusive: cur becomes the first matching index >= cur (cur itself when
\* the current line matches); without a match cur stays and the query is
\* stored all the same.
C5_SlashStep ==
    (ViewerHandles("/") /\ ch'.text # <<>>) =>
        LET M == MatchesIn(lines, ch'.text, cur, total - 1)
        IN  /\ search_q' = Some(ch'.text)
            /\ cur' = IF M = {} THEN cur ELSE Least(M)

C5_Slash == [][C5_SlashStep]_vars

\* the scenario ["alpha", "Beta", "gamma"], '/' "eta": the key was read with cur
\* = 0 (a one-line window at top = 0) and has left cur = 1 and the query stored
C5_Witness ==
    /\ pc = "frame"
    /\ maxy = 2
    /\ top = 0
    /\ ch = Event("/", <<"b", "A">>)
    /\ lines = <<LineAB, LineBa, LineEmpty>>
    /\ search_q = Some(<<"b", "A">>)
    /\ cur = 1

\* the fields of ViewerState
ViewerFields == <<lines, cur, top, hscroll, show_linenums, search_q>>

\* C6: 'F' with a last query moves cur to the first match strictly after cur and
\* leaves the viewer state as it is when there is none (cur on the last line
\* included); 'F' without a last query leaves the viewer state as it is.
C6_FindNextStep ==
    ViewerHandles("F") =>
        LET M == IF search_q = None THEN {}
                 ELSE MatchesIn(lines, search_q[1], cur + 1, total - 1)
        IN  IF M = {} THEN UNCHANGED ViewerFields ELSE cur' = Least(M)

C6_FindNext == [][C6_FindNextStep]_vars

\* 'F' was read with cur = 0 (a one-line window at top = 0), a matching line,
\* and has moved cur to the next match, index 2
C6_Witness ==
    /\ pc = "frame"
    /\ maxy = 2
    /\ top = 0
    /\ ch.key = "F"
    /\ lines = <<LineBa, LineAB, LineBa>>
    /\ search_q = Some(<<"b", "A">>)
    /\ cur = 2

\* C7: '?' with a non-empty query stores the query and searches backward from
\* cur inclusive: cur becomes the greatest matching index <= cur (cur itself
\* when the current line matches); without a match cur stays.
C7_QuestionStep ==
    (ViewerHandles("?") /\ ch'.text # <<>>) =>
        LET M == MatchesIn(lines, ch'.text, 0, cur)
        IN  /\ search_q' = Some(ch'.text)
            /\ cur' = IF M = {} THEN cur ELSE Greatest(M)

C7_Question == [][C7_QuestionStep]_vars

\* '?' was read with cur = 2 (a one-line window at top = 2) and has moved cur
\* up to index 0, the only match
C7_Witness ==
    /\ pc = "frame"
    /\ maxy = 2
    /\ top = 2
    /\ ch = Event("?", <<"a", "B">>)
    /\ lines = <<LineAB, LineBa, LineEmpty>>
    /\ search_q = Some(<<"a", "B">>)
    /\ cur = 0

\* C8: in the browser the selection is an index of the current entry list, for
\* every interleaving of keys and filesystem changes: once an iteration has
\* listed the directory (control is at getch, where Enter dereferences
\* entries[idx]), 0 <= idx <= len(entries) - 1.
C8_IdxInEntries ==
    pc = "b_getch" => (0 <= idx /\ idx <= Len(entries) - 1)

\* C9: when the listing fails the entry list is the parent entry alone and the
\* loop does not fail: no key handled after it raises an error, whatever idx
\* was before the failure.
C9_ListingFailureHandled ==
    list_failed => (entries = <<PARENT>> /\ pc # "b_error")

\* C10 as claimed: after an up or down key, in a terminal that draws at least
\* one entry, the selection designates a drawn entry: idx < terminal height - 1.
C10_SelectionDrawn ==
    (pc = "b_render" /\ ch.key \in {"up", "down"} /\ maxy >= 2) => idx < maxy - 1

\* C10 as amended: at most (terminal height - 1) entries are drawn, the first
\* ones in order; an up or down key leaves idx within the entry list the key
\* was handled with, 0 <= idx <= len(entries) - 1, drawn or not.
C10_SelectionInList ==
    /\ pc = "b_getch" =>
         LET drawn == BrowserDrawn(fs, path, entries, maxy, idx)
         IN  /\ Len(drawn) <= maxy - 1
             /\ Len(drawn) <= Len(entries)
             /\ \A r \in 1..Len(drawn) : drawn[r].name = entries[r]
             /\ Len(drawn) < Len(entries) => Len(drawn) = maxy - 1
    /\ (pc = "b_render" /\ ch.key \in {"up", "down"}) =>
         (0 <= idx /\ idx <= Len(entries) - 1)

\* down has moved the selection past the last drawn entry
C10_Witness ==
    /\ pc = "b_render"
    /\ ch.key = "down"
    /\ maxy >= 2
    /\ idx >= maxy - 1
    /\ idx <= Len(entries) - 1

\* C11 as claimed: when read_text raises IOError no curses session has been
\* entered before it, whatever the form of the argument, and the exit status
\* is not zero.
C11_NoUiBeforeIOError ==
    raised = "IOError" => (sessions = <<>> /\ status # None /\ status # Some(0))

\* C11 as amended: read_text raises IOError outside any curses session, the
\* terminal in normal mode, before the viewer's session is entered, and the
\* exit status is not zero; no session at all has been entered for a file or
\* "-" argument, and for a directory argument only the browser's, which has
\* ended.
C11_IOErrorOutsideUi ==
    raised = "IOError" =>
        /\ status # None /\ status # Some(0)
        /\ term = "normal"
        /\ IF sel = None THEN sessions = <<>> ELSE sessions = <<"browser">>

\* the file chosen in the browser is gone when read_text opens it
C11_Witness ==
    /\ raised = "IOError"
    /\ sessions = <<"browser">>
    /\ sel # None
    /\ status = Some(1)

\* C12: when the process has ended, by whatever path (the viewer's quit, a
\* file chosen and then viewed or not loadable, sys.exit in the browser, an
\* error raised in a loop), the terminal is in normal mode; and it is in normal
\* mode whenever control is in main, outside both loops.
C12_TerminalRestored ==
    /\ status # None => term = "normal"
    /\ pc \in {"m_start", "m_load", "done"} => term = "normal"

\* the browser's sys.exit on 'q': the process has ended with status 0
C12_Witness ==
    /\ pc = "done"
    /\ status = Some(0)
    /\ sessions = <<"browser">>
    /\ ch.key = "q"
    /\ term = "normal"

\* the data read_text has read, before decoding
RawInput == IF arg.form = "stdin" THEN stdin ELSE FileBytes(LoadPath)

\* C13: whatever the input, the buffer read_text returns has at least one line,
\* and empty input gives exactly one empty line; so in every viewer state
\* total >= 1 and cur has a place in [0, total - 1].
C13_LinesNonEmpty ==
    pc \in {"frame", "getch", "exit"} =>
        /\ total >= 1
        /\ RawInput = <<>> => lines = <<LineEmpty>>
        /\ cur \in 0..(total - 1)

\* an empty file chosen in the browser is viewed as one empty line
C13_Witness ==
    /\ pc = "getch"
    /\ sel # None
    /\ sessions = <<"browser", "viewer">>
    /\ FileBytes(sel[1]) = <<>>
    /\ lines = <<LineEmpty>>

\* n brought into [0, total - 1]
InBuffer(n) == IF n < 0 THEN 0 ELSE IF n > total - 1 THEN total - 1 ELSE n

\* C14: page-up sets cur to cur - (viewport height - 1) and page-down to
\* cur + (viewport height - 1), brought into [0, total - 1], the viewport
\* height being rows - 1 of the frame in which the key is read; with at least
\* 2 rows page-down never decreases cur and page-up never increases it.
C14_PageStep ==
    /\ (ViewerHandles("pgup") \/ ViewerHandles("pgdn")) => ViewportHeight = rows - 1
    /\ ViewerHandles("pgup") => cur' = InBuffer(cur - (ViewportHeight - 1))
    /\ ViewerHandles("pgdn") => cur' = InBuffer(cur + (ViewportHeight - 1))
    /\ (ViewerHandles("pgup") /\ rows >= 2) => cur' <= cur
    /\ (ViewerHandles("pgdn") /\ rows >= 2) => cur' >= cur

C14_Page == [][C14_PageStep]_vars

\* page-down read with 3 rows and the window at top = 0, so with cur <= 1, has
\* left cur = 2: one line further, not two
C14_Witness ==
    /\ pc = "frame"
    /\ ch.key = "pgdn"
    /\ maxy = 3
    /\ top = 0
    /\ cur = 2

\* a step in which the browser loop reads the key `key` and handles it
BrowserHandles(key) == pc = "b_getch" /\ pc' # "b_getch" /\ ch'.key = key

\* the path without its last name; the root is its own parent
ParentOf(p) == IF p = <<>> THEN <<>> ELSE [i \in 1..(Len(p) - 1) |-> p[i]]

\* p names a directory that exists
IsDirectoryNow(p) == p = <<>> \/ (p \in fs.present /\ p \in DirNodes)

\* C15: backspace sets the directory to its parent and the selection to 0,
\* whatever the selection; Enter on ".." does the same; Enter on a directory
\* entry enters it with selection 0; the loop returns only on Enter on an
\* entry that is no directory, and returns its full path; up and down leave
\* the directory as it is.
C15_BrowserStep ==
    /\ BrowserHandles("backspace") => (path' = ParentOf(path) /\ idx' = 0)
    /\ (BrowserHandles("enter") /\ idx < Len(entries)) =>
         LET e == entries[idx + 1]
         IN  IF e = ".." THEN path' = ParentOf(path) /\ idx' = 0 /\ pc' = "b_render"
             ELSE IF IsDirectoryNow(path \o <<e>>)
                  THEN path' = path \o <<e>> /\ idx' = 0 /\ pc' = "b_render"
             ELSE pc' = "b_return" /\ sel' = Some(path \o <<e>>)
    /\ (pc # "b_return" /\ pc' = "b_return") =>
         /\ BrowserHandles("enter")
         /\ idx < Len(entries)
         /\ entries[idx + 1] # ".."
         /\ ~IsDirectoryNow(path \o <<entries[idx + 1]>>)
    /\ (BrowserHandles("up") \/ BrowserHandles("down")) => path' = path

C15_Browser == [][C15_BrowserStep]_vars

\* backspace in d, whose listing is still in entries, has led to the root
C15_Witness ==
    /\ pc = "b_render"
    /\ ch.key = "backspace"
    /\ path = Root
    /\ idx = 0
    /\ Len(entries) >= 2
    /\ entries[2] # "d"

\* the names of the model in case-sensitive ordinal order
OrdinalOrder == <<"B", "a", "d", "s">>

OrdinalPosition(name) == CHOOSE i \in 1..Len(OrdinalOrder) : OrdinalOrder[i] = name

\* the names of the children of directory p
ChildrenOf(p) ==
    { n[Len(n)] : n \in { m \in fs.present : Len(m) = Len(p) + 1 /\ IsPrefix(p, m) } }

\* C16: the listing of a readable directory is ".." followed by all its
\* children in case-sensitive ordinal order of their names, files and
\* directories alike.
C16_RenderStep ==
    (pc = "b_render" /\ pc' = "b_getch" /\ IsDirectoryNow(path) /\ path \notin fs.unreadable) =>
        /\ Len(entries') = 1 + Cardinality(ChildrenOf(path))
        /\ entries'[1] = ".."
        /\ { entries'[i] : i \in 2..Len(entries') } = ChildrenOf(path)
        /\ \A i, j \in 2..Len(entries') :
              i < j => OrdinalPosition(entries'[i]) < OrdinalPosition(entries'[j])

C16_EntryOrder == [][C16_RenderStep]_vars

\* files a and B and directory s: "B" first, the directory last
C16_Witness ==
    /\ pc = "b_getch"
    /\ ~list_failed
    /\ entries = <<"..", "B", "a", "s">>

\* what draw has put on the screen in this iteration
Screen == draw(lines, top, cur, hscroll, show_linenums, maxy)

\* C17: in every frame drawn with at least 2 rows, 0 <= top <= total - 1, row y
\* shows line top + y for exactly the rows y of the viewport with
\* top + y <= total - 1, and exactly one drawn row is highlighted: that of cur.
C17_Frame ==
    (pc = "getch" /\ maxy >= 2) =>
        /\ 0 <= top /\ top <= total - 1
        /\ Len(Screen) = Cardinality({ y \in 0..(ViewportHeight - 1) : top + y <= total - 1 })
        /\ \A y \in 0..(Len(Screen) - 1) : Screen[y + 1].line_idx = top + y
        /\ { y \in 0..(Len(Screen) - 1) : Screen[y + 1].reverse } = { cur - top }

\* a window of two rows at top = 2 of three lines: one row drawn, highlighted
C17_Witness ==
    /\ pc = "getch"
    /\ maxy = 3
    /\ top = 2
    /\ total = 3
    /\ Len(Screen) = 1
    /\ Screen[1].reverse

\* C18: a key changes only the field its binding names.  No step changes the
\* buffer; moves and searches leave hscroll and the line-number flag; left and
\* right leave cur, the flag and the last query; 'n' negates the flag and
\* leaves the rest; quit and keys without a binding leave every field.
C18_KeyStep ==
    /\ lines' = lines
    /\ (\E k \in {"up", "down", "pgup", "pgdn", "home", "end", "/", "?", "F"} :
            ViewerHandles(k)) =>
         (hscroll' = hscroll /\ show_linenums' = show_linenums)
    /\ (ViewerHandles("left") \/ ViewerHandles("right")) =>
         (cur' = cur /\ show_linenums' = show_linenums /\ search_q' = search_q)
    /\ ViewerHandles("n") =>
         /\ show_linenums' = ~show_linenums
         /\ UNCHANGED <<lines, cur, top, hscroll, search_q>>
    /\ (\E k \in {"q", "other", "resize"} : ViewerHandles(k)) => UNCHANGED ViewerFields

C18_Frame == [][C18_KeyStep]_vars

\* 'n' has switched the flag on with the offset, the line and the query in place
C18_Witness ==
    /\ pc = "frame"
    /\ ch.key = "n"
    /\ show_linenums
    /\ hscroll = 1
    /\ cur = 1
    /\ search_q = Some(<<"a">>)

\* C19: an empty query at the '/' or '?' prompt leaves the viewer state as it
\* is, the last query kept; and the last query is never the empty string.
C19_EmptyQueryStep ==
    ((ViewerHandles("/") \/ ViewerHandles("?")) /\ ch'.text = <<>>) =>
        UNCHANGED ViewerFields

C19_EmptyQuery == [](search_q # Some(<<>>)) /\ [][C19_EmptyQueryStep]_vars

\* an empty query entered at '/' with a last query in place
C19_Witness ==
    /\ pc = "frame"
    /\ ch = Event("/", <<>>)
    /\ search_q = Some(<<"a">>)

============================================================================
